---- MODULE Spec2Model ----
(***************************************************************************)
(* A model of the commit-history pipeline of open-software-analyzer:       *)
(*   src/src/data_fetcher.py    RepoDataFetcher (clone, open, traverse,    *)
(*                              save and load the commit table)           *)
(*   src/src/fetch_axios_api.py paginated extraction from the GitHub API   *)
(*   src/src/analyzer.py        RepoAnalyzer (aggregations over the table) *)
(*                                                                         *)
(* Instants are whole hours counted from 2023-01-01T00:00 UTC (a Sunday).  *)
(* Each entry point has its specification: Spec (get_commit_history and    *)
(* the analyzer built on its result), SpecClone (clone_repo, open_repo),   *)
(* SpecApi (the paginated fetch), SpecCsv (save and load), SpecAnalyze     *)
(* (the analyses).  The variables of the other entry points stay idle.     *)
(*                                                                         *)
(* A string is the sequence of its tokens; the tokens "\n" and " " stand   *)
(* for white space, which str.strip() removes at both ends.                *)
(***************************************************************************)
EXTENDS Integers, Sequences, FiniteSets, TLC

(***************************************************************************)
(* Bounds of the model.                                                    *)
(***************************************************************************)
MaxCommits == 3
MaxLimit == 3
MaxCalls == 4
MaxRemote == 3
MaxPerPage == 2
MaxPages == 2

VARIABLES
  \* ---- RepoDataFetcher.get_commit_history, then RepoAnalyzer(commit_df)
  repo_commits,   \* the repository's history, newest first (the environment)
  limit,          \* the limit argument: None or Some(integer)
  pc,             \* position of the call: "idle", "loop", "done"; of the
                  \* script fetch_axios_fast: "fast-idle", "fast-loop", "fast-done"
  commits,        \* the local list `commits`
  count,          \* the local counter `count`
  pos,            \* index of the commit the iterator yields next
  outcome,        \* "none", "returned", or the exception raised
  result,         \* the DataFrame returned
  stats_failed,   \* shas of the commits whose statistics could not be computed
  analyzer,       \* RepoAnalyzer(result): "none", "ok" or "KeyError"
  \* ---- RepoDataFetcher.clone_repo / open_repo and the file system
  fs_dirs,        \* the paths that are directories
  fs_dotgit,      \* per directory, what its entry .git is: "absent", "dir", "file"
  repo_path,      \* fetcher.repo_path: None or Some(path)
  repo,           \* fetcher.repo: None or Some(path the handle was opened on)
  call_url,       \* the repo_url the caller passes to clone_repo
  call_target,    \* the target_dir the caller passes: None or Some(path)
  clone_log,      \* the clone_repo calls so far and what each did
  returned,       \* what the last call returned: None or Some(path)
  last_op,        \* the last operation on the fetcher and how it ended
  ncalls,         \* number of operations so far
  \* ---- fetch_commits_from_github_api
  remote,         \* the commits the API serves, newest first (the environment)
  per_page,       \* argument per_page
  max_pages,      \* argument max_pages
  page,           \* the loop variable `page`
  api_commits,    \* the local list `commits`
  api_pc,         \* "idle", "loop", "done"
  requests,       \* the requests.get calls made so far, in order
  api_outcome,    \* "none", "returned", or the exception that left the function
  \* ---- RepoDataFetcher.save_commit_data / load_commit_data
  csv_df,         \* the frame the caller saves
  csv_file,       \* the CSV file: its header and its lines of cell texts
  loaded_df,      \* the frame load_commit_data returned
  csv_pc,         \* "start", "saved", "loaded"
  \* ---- RepoAnalyzer
  caller_df,      \* the frame the caller passed to RepoAnalyzer(commit_df)
  div_by_zero,    \* what column sum / 0 does for the frame's column types
  tie_order,      \* the order value_counts gives the authors, ties included
  nan_messages,   \* whether empty messages are NaN: the frame came from read_csv
  commit_df,      \* analyzer.commit_df, the copy taken by __init__
  an_call,        \* the last analysis call: its method and its argument
  an_result       \* what that call returned or raised

histVars == <<repo_commits, limit, pc, commits, count, pos, outcome, result,
              stats_failed, analyzer>>

cloneVars == <<fs_dirs, fs_dotgit, repo_path, repo, call_url, call_target,
               clone_log, returned, last_op, ncalls>>

apiVars == <<remote, per_page, max_pages, page, api_commits, api_pc, requests,
             api_outcome>>

csvVars == <<csv_df, csv_file, loaded_df, csv_pc>>

anVars == <<caller_df, div_by_zero, tie_order, nan_messages, commit_df, an_call,
           an_result>>

\* what no analysis assigns: the caller's frame and the pandas behaviour
anEnv == <<caller_df, div_by_zero, tie_order, nan_messages>>

vars == <<histVars, cloneVars, apiVars, csvVars, anVars>>

notHist == <<cloneVars, apiVars, csvVars, anVars>>

notClone == <<histVars, apiVars, csvVars, anVars>>

notApi == <<histVars, cloneVars, csvVars, anVars>>

notCsv == <<histVars, cloneVars, apiVars, anVars>>

notAn == <<histVars, cloneVars, apiVars, csvVars>>

\* An optional integer is the set of its values: None is the empty set.
None == {}

Some(n) == {n}

ValueOf(opt) == CHOOSE n \in opt : TRUE

(***************************************************************************)
(* Calendar arithmetic on instants (pandas Timestamp accessors).           *)
(***************************************************************************)
DayOf(ts) == ts \div 24

HourOf(ts) == ts % 24

\* Monday = 0 ... Sunday = 6; day 0 (2023-01-01) is a Sunday.
DayOfWeek(day) == (day + 6) % 7

IsLeap(y) == (y % 4 = 0 /\ y % 100 # 0) \/ y % 400 = 0

DaysInYear(y) == IF IsLeap(y) THEN 366 ELSE 365

DaysInMonth(y, m) ==
  IF m = 2 THEN (IF IsLeap(y) THEN 29 ELSE 28)
  ELSE IF m \in {4, 6, 9, 11} THEN 30 ELSE 31

RECURSIVE YearFrom(_, _)
YearFrom(day, y) ==
  IF day < DaysInYear(y) THEN y ELSE YearFrom(day - DaysInYear(y), y + 1)

YearOfDay(day) == YearFrom(day, 2023)

RECURSIVE YearStartFrom(_, _, _)
YearStartFrom(day, y, start) ==
  IF day < start + DaysInYear(y) THEN start
  ELSE YearStartFrom(day, y + 1, start + DaysInYear(y))

\* the day number of January 1st of the year `day` lies in
YearStart(day) == YearStartFrom(day, 2023, 0)

RECURSIVE MonthFrom(_, _, _)
MonthFrom(dayOfYear, y, m) ==
  IF dayOfYear < DaysInMonth(y, m) THEN m
  ELSE MonthFrom(dayOfYear - DaysInMonth(y, m), y, m + 1)

MonthOfDay(day) == MonthFrom(day - YearStart(day), YearOfDay(day), 1)

RECURSIVE MonthStartFrom(_, _, _, _)
MonthStartFrom(day, y, m, start) ==
  IF day < start + DaysInMonth(y, m) THEN start
  ELSE MonthStartFrom(day, y, m + 1, start + DaysInMonth(y, m))

\* the day number of the first day of the month `day` lies in
MonthStart(day) == MonthStartFrom(day, YearOfDay(day), 1, YearStart(day))

(***************************************************************************)
(* The repository: commits as GitPython hands them to get_commit_history.  *)
(* committed_local is the committer's wall-clock time, tz_offset its UTC   *)
(* offset in hours; stats are the totals of `git diff --numstat` against   *)
(* the first parent.                                                       *)
(***************************************************************************)
Whitespace == {" ", "\n"}

\* a Python str is the sequence of its tokens; Str(s) is a one-token string
Str(s) == <<s>>

SampleCommits == {
  [hexsha |-> Str("abc123"), author_name |-> Str("Alice"), author_email |-> Str("alice@example.com"),
   committer_name |-> Str("Alice"), committer_email |-> Str("alice@example.com"),
   committed_local |-> 10, tz_offset |-> 0,
   message |-> <<"Fix", "bug", "in", "login", "\n">>,
   stats |-> [insertions |-> 10, deletions |-> 5, lines |-> 15, files |-> 2],
   parents |-> <<Str("def456")>>],
  [hexsha |-> Str("def456"), author_name |-> Str("Bob"), author_email |-> Str("bob@example.com"),
   committer_name |-> Str("Alice"), committer_email |-> Str("alice@example.com"),
   committed_local |-> 18, tz_offset |-> 8,
   message |-> <<"Add", "new", "feature">>,
   stats |-> [insertions |-> 20, deletions |-> 0, lines |-> 20, files |-> 1],
   parents |-> <<Str("ghi789")>>],
  [hexsha |-> Str("ghi789"), author_name |-> Str("Alice"), author_email |-> Str("alice@work.example"),
   committer_name |-> Str("Alice"), committer_email |-> Str("alice@work.example"),
   committed_local |-> 225, tz_offset |-> 0,
   message |-> <<"\n", "Update", "documentation", "\n">>,
   stats |-> [insertions |-> 5, deletions |-> 2, lines |-> 7, files |-> 3],
   parents |-> <<Str("jkl012"), Str("mno345")>>],
  [hexsha |-> Str("jkl012"), author_name |-> Str("Carol"), author_email |-> Str("carol@example.com"),
   committer_name |-> Str("Bob"), committer_email |-> Str("bob@example.com"),
   committed_local |-> 1526, tz_offset |-> 0,
   message |-> <<"\n">>,
   stats |-> [insertions |-> 0, deletions |-> 0, lines |-> 0, files |-> 0],
   parents |-> <<Str("mno345")>>],
  [hexsha |-> Str("mno345"), author_name |-> Str("Bob"), author_email |-> Str("bob@example.com"),
   committer_name |-> Str("Bob"), committer_email |-> Str("bob@example.com"),
   committed_local |-> 10204, tz_offset |-> (0 - 5),
   message |-> <<"Fix", "Login", "login", "42">>,
   stats |-> [insertions |-> 7, deletions |-> 3, lines |-> 10, files |-> 2],
   parents |-> <<>>] }

Range(s) == {s[i] : i \in 1..Len(s)}

\* sequences of at most n distinct elements of S
RECURSIVE DistinctSeqs(_, _)
DistinctSeqs(S, n) ==
  IF n = 0 THEN {<<>>}
  ELSE LET shorter == DistinctSeqs(S, n - 1)
       IN  shorter \cup
           UNION {{Append(s, x) : x \in S \ Range(s)} :
                  s \in {t \in shorter : Len(t) = n - 1}}

Histories == DistinctSeqs(SampleCommits, MaxCommits)

(***************************************************************************)
(* Normalisation of one commit (data_fetcher.py lines 87-105).             *)
(***************************************************************************)
RECURSIVE LStrip(_)
LStrip(msg) ==
  IF msg # <<>> /\ Head(msg) \in Whitespace THEN LStrip(Tail(msg)) ELSE msg

RECURSIVE RStrip(_)
RStrip(msg) ==
  IF msg # <<>> /\ msg[Len(msg)] \in Whitespace
  THEN RStrip(SubSeq(msg, 1, Len(msg) - 1)) ELSE msg

\* str.strip()
Strip(msg) == RStrip(LStrip(msg))

\* committed_datetime.replace(tzinfo=None) without the conversion to UTC
StripOffsetOnly(local, offset) == local

\* committed_datetime.astimezone(pytz.UTC).replace(tzinfo=None)
ToUtcNaive(local, offset) == local - offset

\* the dict commit_data
CommitData(commit) ==
  [sha |-> commit.hexsha,
   author_name |-> commit.author_name,
   author_email |-> commit.author_email,
   committer_name |-> commit.committer_name,
   committer_email |-> commit.committer_email,
   datetime |-> ToUtcNaive(commit.committed_local, commit.tz_offset),
   message |-> Strip(commit.message),
   insertions |-> commit.stats.insertions,
   deletions |-> commit.stats.deletions,
   lines_changed |-> commit.stats.lines,
   files_changed |-> commit.stats.files,
   parents |-> Len(commit.parents)]

CommitColumns ==
  <<"sha", "author_name", "author_email", "committer_name", "committer_email",
    "datetime", "message", "insertions", "deletions", "lines_changed",
    "files_changed", "parents">>

\* pd.DataFrame(list of dicts): the columns are the keys of the dicts, in
\* insertion order; an empty list gives a frame with no columns at all.
DataFrame(dicts) ==
  [columns |-> IF dicts = <<>> THEN <<>> ELSE CommitColumns, rows |-> dicts]

HasColumn(df, name) == \E i \in 1..Len(df.columns) : df.columns[i] = name

NoFrame == [columns |-> <<>>, rows |-> <<>>]

NoFile == [header |-> <<>>, lines |-> <<>>]

(***************************************************************************)
(* RepoDataFetcher.get_commit_history(limit), one loop iteration per step. *)
(***************************************************************************)
Limits == {None} \cup {Some(n) : n \in 0..MaxLimit}

\* Python truth value of the limit argument: None and 0 are false
Truthy(lim) == lim # None /\ lim # Some(0)

\* `if limit and count >= limit: break`
LimitReached(lim, n) == Truthy(lim) /\ n >= ValueOf(lim)

\* the state of a fetcher on which get_commit_history has not been called
IdleHist ==
  /\ repo_commits = <<>>
  /\ limit = None
  /\ pc = "unused"
  /\ commits = <<>>
  /\ count = 0
  /\ pos = 1
  /\ outcome = "none"
  /\ result = NoFrame
  /\ stats_failed = {}
  /\ analyzer = "none"

\* no clone_repo scenario: the fetcher was constructed on an existing checkout
IdleClone ==
  /\ fs_dirs = {}
  /\ fs_dotgit = <<>>
  /\ repo_path = None
  /\ repo = None
  /\ call_url = <<>>
  /\ call_target = None
  /\ clone_log = <<>>
  /\ returned = None
  /\ last_op = "none"
  /\ ncalls = 0

\* fetch_commits_from_github_api is not called
IdleApi ==
  /\ remote = <<>>
  /\ per_page = 0
  /\ max_pages = 0
  /\ page = 0
  /\ api_commits = <<>>
  /\ api_pc = "unused"
  /\ requests = <<>>
  /\ api_outcome = "none"

\* nothing is saved or loaded
IdleCsv ==
  /\ csv_df = NoFrame
  /\ csv_file = NoFile
  /\ loaded_df = NoFrame
  /\ csv_pc = "unused"

NoCall == [op |-> "none", arg |-> "none"]

\* no analysis is run
IdleAn ==
  /\ caller_df = NoFrame
  /\ div_by_zero = "nan"
  /\ tie_order = <<>>
  /\ nan_messages = FALSE
  /\ commit_df = NoFrame
  /\ an_call = NoCall
  /\ an_result = <<>>

\* RepoDataFetcher(repo_path) on a checkout whose history is repo_commits
Init ==
  /\ IdleClone
  /\ IdleApi
  /\ IdleCsv
  /\ IdleAn
  /\ repo_commits \in Histories
  /\ limit = None
  /\ pc = "idle"
  /\ commits = <<>>
  /\ count = 0
  /\ pos = 1
  /\ outcome = "none"
  /\ result = NoFrame
  /\ stats_failed = {}
  /\ analyzer = "none"

\* the call: open_repo(), commits = [], count = 0, repo.iter_commits()
GetCommitHistory(lim) ==
  /\ pc = "idle"
  /\ repo_commits # <<>>
  /\ limit' = lim
  /\ pc' = "loop"
  /\ commits' = <<>>
  /\ count' = 0
  /\ pos' = 1
  /\ UNCHANGED <<repo_commits, outcome, result, stats_failed, analyzer>>
  /\ UNCHANGED notHist

\* A repository without commits has an unborn HEAD: repo.iter_commits()
\* resolves HEAD before it yields anything.  Depending on the GitPython
\* build the resolution raises ValueError or the traversal is empty.
GetCommitHistoryUnborn(lim, raises) ==
  /\ pc = "idle"
  /\ repo_commits = <<>>
  /\ limit' = lim
  /\ pc' = "done"
  /\ outcome' = IF raises THEN "ValueError" ELSE "returned"
  /\ result' = IF raises THEN NoFrame ELSE DataFrame(<<>>)
  /\ UNCHANGED <<repo_commits, commits, count, pos, stats_failed, analyzer>>
  /\ UNCHANGED notHist

\* the iterator is exhausted: return pd.DataFrame(commits)
LoopExhausted ==
  /\ pc = "loop"
  /\ pos > Len(repo_commits)
  /\ pc' = "done"
  /\ outcome' = "returned"
  /\ result' = DataFrame(commits)
  /\ UNCHANGED <<repo_commits, limit, commits, count, pos, stats_failed, analyzer>>
  /\ UNCHANGED notHist

\* `break`, then return pd.DataFrame(commits)
LoopBreak ==
  /\ pc = "loop"
  /\ pos <= Len(repo_commits)
  /\ LimitReached(limit, count)
  /\ pc' = "done"
  /\ outcome' = "returned"
  /\ result' = DataFrame(commits)
  /\ UNCHANGED <<repo_commits, limit, commits, count, pos, stats_failed, analyzer>>
  /\ UNCHANGED notHist

\* the loop body for a commit whose statistics can be computed
LoopBody ==
  /\ pc = "loop"
  /\ pos <= Len(repo_commits)
  /\ ~LimitReached(limit, count)
  /\ commits' = Append(commits, CommitData(repo_commits[pos]))
  /\ count' = count + 1
  /\ pos' = pos + 1
  /\ UNCHANGED <<repo_commits, limit, pc, outcome, result, stats_failed, analyzer>>
  /\ UNCHANGED notHist

\* `stats = commit.stats.total` raises (the diff against the parent cannot be
\* computed); no handler encloses it, so the exception leaves the method.
LoopStatsRaise ==
  /\ pc = "loop"
  /\ pos <= Len(repo_commits)
  /\ ~LimitReached(limit, count)
  /\ stats_failed' = stats_failed \cup {repo_commits[pos].hexsha}
  /\ pc' = "done"
  /\ outcome' = "GitCommandError"
  /\ UNCHANGED <<repo_commits, limit, commits, count, pos, result, analyzer>>
  /\ UNCHANGED notHist

\* RepoAnalyzer.__init__(commit_df): copies the frame and reads its
\* 'datetime' column
AnalyzerInit(df) == IF HasColumn(df, "datetime") THEN "ok" ELSE "KeyError"

ConstructAnalyzer ==
  /\ pc = "done"
  /\ outcome = "returned"
  /\ analyzer = "none"
  /\ analyzer' = AnalyzerInit(result)
  /\ UNCHANGED <<repo_commits, limit, pc, commits, count, pos, outcome, result,
                 stats_failed>>
  /\ UNCHANGED notHist

Next ==
  \/ \E lim \in Limits : GetCommitHistory(lim)
  \/ \E lim \in Limits, raises \in BOOLEAN : GetCommitHistoryUnborn(lim, raises)
  \/ LoopExhausted
  \/ LoopBreak
  \/ LoopBody
  \/ LoopStatsRaise
  \/ ConstructAnalyzer

Spec == Init /\ [][Next]_vars

(***************************************************************************)
(* RepoDataFetcher.clone_repo and open_repo over a file system.            *)
(* A URL is the list of its '/'-separated segments, a segment the list of  *)
(* its tokens; a path is the list of its components.                       *)
(***************************************************************************)
\* the URL of the tests, the URL of the example, and a URL with a trailing
\* slash, whose last segment is empty
Urls ==
  {<<<<"https:">>, <<>>, <<"github.com">>, <<"hello-world">>, <<"hello-world", ".git">>>>,
   <<<<"https:">>, <<>>, <<"github.com">>, <<"python">>, <<"cpython">>>>,
   <<<<"https:">>, <<>>, <<"github.com">>, <<"axios">>, <<"axios">>, <<>>>>}

\* repo_url.split('/')[-1].replace('.git', '')
RepoName(url) == SelectSeq(url[Len(url)], LAMBDA t : t # ".git")

\* os.path.join(path, name): joining an empty name names the same directory
Join(path, name) == IF name = <<>> THEN path ELSE Append(path, name)

DataDir == <<<<"data">>>>

TestDir == <<<<"test_repo">>>>

\* the paths a clone of `url` can touch
PathsOf(url) ==
  {DataDir, Join(DataDir, RepoName(url)), TestDir, Join(TestDir, RepoName(url))}

Prefixes(path) == {SubSeq(path, 1, n) : n \in 1..Len(path)}

\* os.path.isdir(path)
IsDir(dirs, path) == path \in dirs

\* os.path.isdir(os.path.join(path, '.git'))
IsGitDir(dirs, dotgit, path) == path \in dirs /\ dotgit[path] = "dir"

\* os.path.exists(os.path.join(path, '.git'))
GitExists(dirs, dotgit, path) == path \in dirs /\ dotgit[path] # "absent"

\* ResolveTarget without the .git test of line 37: an existing target_dir
\* is always taken as the parent directory
ResolveTargetAlwaysParent(url, target_dir, dirs, dotgit) ==
  IF target_dir = None
  THEN Join(DataDir, RepoName(url))
  ELSE IF IsDir(dirs, ValueOf(target_dir))
       THEN Join(ValueOf(target_dir), RepoName(url))
       ELSE ValueOf(target_dir)

\* lines 33-40: the directory the repository is expected in
ResolveTarget(url, target_dir, dirs, dotgit) ==
  IF target_dir = None
  THEN Join(DataDir, RepoName(url))
  ELSE IF IsDir(dirs, ValueOf(target_dir))
          /\ ~IsGitDir(dirs, dotgit, ValueOf(target_dir))
       THEN Join(ValueOf(target_dir), RepoName(url))
       ELSE ValueOf(target_dir)

\* os.makedirs(path, exist_ok=True): the directories afterwards
MakeDirs(dirs, path) == dirs \cup Prefixes(path)

\* the .git entries after os.makedirs: a new directory has none
DotGitAfterMakeDirs(dirs, dotgit, path) ==
  [d \in MakeDirs(dirs, path) |-> IF d \in dirs THEN dotgit[d] ELSE "absent"]

\* line 44: `if not os.path.exists(os.path.join(target_dir, '.git'))`
CloneNeeded(dirs, dotgit, target) == ~GitExists(dirs, dotgit, target)

InitClone ==
  /\ IdleHist
  /\ IdleAn
  /\ IdleApi
  /\ IdleCsv
  /\ call_url \in Urls
  /\ call_target \in {None, Some(TestDir)}
  /\ fs_dirs \in {dirs \in SUBSET PathsOf(call_url) :
                      \A d \in dirs : Prefixes(d) \subseteq dirs}
  /\ fs_dotgit \in [fs_dirs -> {"absent", "dir", "file"}]
  /\ repo_path = None
  /\ repo = None
  /\ clone_log = <<>>
  /\ returned = None
  /\ last_op = "none"
  /\ ncalls = 0

\* clone_repo(repo_url, target_dir) running to its return statement
CloneRepo ==
  /\ ncalls < MaxCalls
  /\ LET target == ResolveTarget(call_url, call_target, fs_dirs, fs_dotgit)
         dirs == MakeDirs(fs_dirs, target)
         dotgit == DotGitAfterMakeDirs(fs_dirs, fs_dotgit, target)
     IN  /\ fs_dirs' = dirs
         /\ fs_dotgit' = IF CloneNeeded(dirs, dotgit, target)
                          THEN [dotgit EXCEPT ![target] = "dir"]
                          ELSE dotgit
         /\ clone_log' = Append(clone_log,
                           [to |-> target,
                            did |-> IF CloneNeeded(dirs, dotgit, target)
                                    THEN "cloned" ELSE "reused",
                            had_git |-> GitExists(fs_dirs, fs_dotgit, target)])
         /\ repo_path' = Some(target)
         /\ returned' = Some(target)
  /\ last_op' = "clone_repo returned"
  /\ ncalls' = ncalls + 1
  /\ UNCHANGED <<repo, call_url, call_target>>
  /\ UNCHANGED notClone

\* clone_repo when git.Repo.clone_from raises (remote unreachable): the
\* directories are made, nothing is cloned, repo_path is not assigned
CloneRepoRaises ==
  /\ ncalls < MaxCalls
  /\ LET target == ResolveTarget(call_url, call_target, fs_dirs, fs_dotgit)
         dirs == MakeDirs(fs_dirs, target)
         dotgit == DotGitAfterMakeDirs(fs_dirs, fs_dotgit, target)
     IN  /\ CloneNeeded(dirs, dotgit, target)
         /\ fs_dirs' = dirs
         /\ fs_dotgit' = dotgit
         /\ clone_log' = Append(clone_log,
                           [to |-> target, did |-> "raised",
                            had_git |-> GitExists(fs_dirs, fs_dotgit, target)])
  /\ returned' = None
  /\ last_op' = "clone_repo raised"
  /\ ncalls' = ncalls + 1
  /\ UNCHANGED <<repo_path, repo, call_url, call_target>>
  /\ UNCHANGED notClone

\* `fetcher.repo_path = repo_path` (cli.py line 37)
AssignRepoPath(path) ==
  /\ ncalls < MaxCalls
  /\ repo_path' = Some(path)
  /\ returned' = None
  /\ last_op' = "repo_path assigned"
  /\ ncalls' = ncalls + 1
  /\ UNCHANGED <<fs_dirs, fs_dotgit, repo, call_url, call_target, clone_log>>
  /\ UNCHANGED notClone

\* open_repo(): git.Repo(path) needs a repository at the path
OpenRepo ==
  /\ ncalls < MaxCalls
  /\ IF repo_path = None
     THEN /\ last_op' = "open_repo raised ValueError"
          /\ UNCHANGED <<repo, returned>>
     ELSE IF repo # None
     THEN /\ last_op' = "open_repo returned"
          /\ returned' = repo
          /\ UNCHANGED repo
     ELSE IF GitExists(fs_dirs, fs_dotgit, ValueOf(repo_path))
     THEN /\ last_op' = "open_repo returned"
          /\ repo' = repo_path
          /\ returned' = repo_path
     ELSE /\ last_op' = "open_repo raised InvalidGitRepositoryError"
          /\ UNCHANGED <<repo, returned>>
  /\ ncalls' = ncalls + 1
  /\ UNCHANGED <<fs_dirs, fs_dotgit, repo_path, call_url, call_target, clone_log>>
  /\ UNCHANGED notClone

NextClone ==
  \/ CloneRepo
  \/ CloneRepoRaises
  \/ \E path \in PathsOf(call_url) : AssignRepoPath(path)
  \/ OpenRepo

SpecClone == InitClone /\ [][NextClone]_vars

(***************************************************************************)
(* fetch_commits_from_github_api(owner, repo, per_page, max_pages).        *)
(* A payload is one element of the JSON list the commits endpoint returns. *)
(* Its date is a string: `utc` is the instant it denotes and `zulu` tells  *)
(* whether it has the form %Y-%m-%dT%H:%M:%SZ that strptime accepts.       *)
(***************************************************************************)
ApiPayloads == {
  [sha |-> Str("abc123"),
   author |-> Some([name |-> Str("Alice"), email |-> Str("alice@example.com")]),
   committer |-> [name |-> Str("Alice"), email |-> Str("alice@example.com"),
                  date |-> [utc |-> 10, zulu |-> TRUE]],
   message |-> <<"Fix", "bug", "in", "login", "\n">>,
   stats |-> None, files |-> None, parents |-> Some(<<Str("def456")>>)],
  [sha |-> Str("def456"),
   author |-> Some([name |-> Str("Bob"), email |-> Str("bob@example.com")]),
   committer |-> [name |-> Str("GitHub"), email |-> Str("noreply@github.com"),
                  date |-> [utc |-> 31, zulu |-> TRUE]],
   message |-> <<"Add", "new", "feature">>,
   stats |-> Some([additions |-> 20, deletions |-> 0, total |-> 20]),
   files |-> Some(<<Str("README.md")>>), parents |-> Some(<<Str("ghi789")>>)],
  \* the author object is null: commit['commit']['author']['name'] raises TypeError
  [sha |-> Str("ghi789"),
   author |-> None,
   committer |-> [name |-> Str("Alice"), email |-> Str("alice@work.example"),
                  date |-> [utc |-> 225, zulu |-> TRUE]],
   message |-> <<"Update", "documentation">>,
   stats |-> None, files |-> None, parents |-> Some(<<Str("jkl012")>>)],
  [sha |-> Str("jkl012"),
   author |-> Some([name |-> Str("Carol"), email |-> Str("carol@example.com")]),
   committer |-> [name |-> Str("Carol"), email |-> Str("carol@example.com"),
                  date |-> [utc |-> 1526, zulu |-> TRUE]],
   message |-> <<"Initial", "commit", "\n">>,
   stats |-> None, files |-> None, parents |-> None] }

Remotes == DistinctSeqs(ApiPayloads, MaxRemote)

Min(a, b) == IF a < b THEN a ELSE b

\* the JSON list the endpoint returns for params {per_page, page}
PageOf(served, pp, p) == SubSeq(served, (p - 1) * pp + 1, Min(p * pp, Len(served)))

\* whether the inner try block (lines 40-63) completes for a payload
ApiProcessable(c) == c.author # None /\ c.committer.date.zulu

\* dict.get(key, default) on an optional field
GetOr(opt, default) == IF opt = None THEN default ELSE ValueOf(opt)

\* strptime(..., '...Z').replace(tzinfo=pytz.UTC).replace(tzinfo=None)
ParseZulu(date) == date.utc

\* the dict commit_data of lines 48-61
ApiCommitData(c) ==
  [sha |-> c.sha,
   author_name |-> ValueOf(c.author).name,
   author_email |-> ValueOf(c.author).email,
   committer_name |-> c.committer.name,
   committer_email |-> c.committer.email,
   datetime |-> ParseZulu(c.committer.date),
   message |-> Strip(c.message),
   insertions |-> GetOr(c.stats, [additions |-> 0, deletions |-> 0, total |-> 0]).additions,
   deletions |-> GetOr(c.stats, [additions |-> 0, deletions |-> 0, total |-> 0]).deletions,
   lines_changed |-> GetOr(c.stats, [additions |-> 0, deletions |-> 0, total |-> 0]).total,
   files_changed |-> Len(GetOr(c.files, <<>>)),
   parents |-> Len(GetOr(c.parents, <<>>))]

\* the keys of commit_data, in insertion order
ApiColumns ==
  <<"sha", "author_name", "author_email", "committer_name", "committer_email",
    "datetime", "message", "insertions", "deletions", "lines_changed",
    "files_changed", "parents">>

\* the inner loop over one page: a payload whose processing raises is
\* reported and skipped (`continue`)
RECURSIVE ProcessPage(_, _)
ProcessPage(acc, page_commits) ==
  IF page_commits = <<>> THEN acc
  ELSE ProcessPage(IF ApiProcessable(Head(page_commits))
                   THEN Append(acc, ApiCommitData(Head(page_commits)))
                   ELSE acc,
                   Tail(page_commits))

\* `for page in range(1, max_pages + 1)`: whether `page` is still in range
InRange(p, mp) == p <= mp

\* Breaks with `continue` in place of the `break` of line 37
BreaksOnlyOnFailure(status) == status = "failed"

\* whether the loop is left (`break`) after a response of this kind:
\* an empty page (line 37) or a failed request (line 73)
Breaks(status) == status \in {"empty", "failed"}

InitApi ==
  /\ IdleHist
  /\ IdleAn
  /\ IdleClone
  /\ IdleCsv
  /\ remote \in Remotes
  /\ per_page = 0
  /\ max_pages = 0
  /\ page = 0
  /\ api_commits = <<>>
  /\ api_pc = "idle"
  /\ requests = <<>>
  /\ api_outcome = "none"

\* the call: commits = [], the loop starts at page 1
FetchCommits(pp, mp) ==
  /\ api_pc = "idle"
  /\ per_page' = pp
  /\ max_pages' = mp
  /\ page' = 1
  /\ api_commits' = <<>>
  /\ api_pc' = "loop"
  /\ UNCHANGED <<remote, requests, api_outcome>>
  /\ UNCHANGED notApi

\* what follows one response: leave the loop and return, or go on
AfterResponse(status) ==
  IF Breaks(status)
  THEN /\ api_pc' = "done"
       /\ api_outcome' = "returned"
       /\ page' = page
  ELSE /\ api_pc' = "loop"
       /\ api_outcome' = api_outcome
       /\ page' = page + 1

\* one iteration whose request succeeds: requests.get, raise_for_status,
\* response.json(), then the inner loop over the page
RequestPage ==
  /\ api_pc = "loop"
  /\ InRange(page, max_pages)
  /\ LET page_commits == PageOf(remote, per_page, page)
         status == IF page_commits = <<>> THEN "empty" ELSE "ok"
     IN  /\ requests' = Append(requests,
                          [page |-> page, status |-> status,
                           collected |-> Len(api_commits)])
         /\ api_commits' = ProcessPage(api_commits, page_commits)
         /\ AfterResponse(status)
  /\ UNCHANGED <<remote, per_page, max_pages>>
  /\ UNCHANGED notApi

\* one iteration whose request raises RequestException: the handler of
\* lines 71-73 prints the error and leaves the loop
RequestFails ==
  /\ api_pc = "loop"
  /\ InRange(page, max_pages)
  /\ requests' = Append(requests,
                   [page |-> page, status |-> "failed",
                    collected |-> Len(api_commits)])
  /\ AfterResponse("failed")
  /\ UNCHANGED <<remote, per_page, max_pages, api_commits>>
  /\ UNCHANGED notApi

\* the range is exhausted: `return commits`
PagesExhausted ==
  /\ api_pc = "loop"
  /\ ~InRange(page, max_pages)
  /\ api_pc' = "done"
  /\ api_outcome' = "returned"
  /\ UNCHANGED <<remote, per_page, max_pages, page, api_commits, requests>>
  /\ UNCHANGED notApi

NextApi ==
  \/ \E pp \in 1..MaxPerPage, mp \in 1..MaxPages : FetchCommits(pp, mp)
  \/ RequestPage
  \/ RequestFails
  \/ PagesExhausted

SpecApi == InitApi /\ [][NextApi]_vars

(***************************************************************************)
(* The script fetch_axios_fast.py: the traversal of get_commit_history     *)
(* without the statistics, each commit in its own try block.  It uses the  *)
(* variables of get_commit_history.                                        *)
(***************************************************************************)
\* limit = 500
FastLimit == 500

\* the dict commit_data of lines 40-51
FastCommitData(commit) ==
  [sha |-> commit.hexsha,
   author_name |-> commit.author_name,
   author_email |-> commit.author_email,
   datetime |-> ToUtcNaive(commit.committed_local, commit.tz_offset),
   message |-> Strip(commit.message),
   insertions |-> 0,
   deletions |-> 0,
   lines_changed |-> 0,
   files_changed |-> 0,
   parents |-> Len(commit.parents)]

\* pd.DataFrame(commits) of line 66: the columns are the keys of
\* commit_data, in insertion order
FastDataFrame(dicts) ==
  [columns |-> IF dicts = <<>> THEN <<>>
               ELSE <<"sha", "author_name", "author_email", "datetime", "message",
                      "insertions", "deletions", "lines_changed", "files_changed",
                      "parents">>,
   rows |-> dicts]

InitFast ==
  /\ IdleClone
  /\ IdleApi
  /\ IdleCsv
  /\ IdleAn
  /\ repo_commits \in Histories
  /\ limit = None
  /\ pc = "fast-idle"
  /\ commits = <<>>
  /\ count = 0
  /\ pos = 1
  /\ outcome = "none"
  /\ result = NoFrame
  /\ stats_failed = {}
  /\ analyzer = "none"

\* git.Repo(repo_path), commits = [], count = 0, limit = 500, iter_commits()
FastStart ==
  /\ pc = "fast-idle"
  /\ repo_commits # <<>>
  /\ limit' = Some(FastLimit)
  /\ pc' = "fast-loop"
  /\ commits' = <<>>
  /\ count' = 0
  /\ pos' = 1
  /\ UNCHANGED <<repo_commits, outcome, result, stats_failed, analyzer>>
  /\ UNCHANGED notHist

\* on a repository without commits iter_commits() raises ValueError, which
\* the outer handler (lines 80-83) prints, or the traversal is empty
FastStartUnborn(raises) ==
  /\ pc = "fast-idle"
  /\ repo_commits = <<>>
  /\ limit' = Some(FastLimit)
  /\ pc' = "fast-done"
  /\ outcome' = IF raises THEN "ValueError printed" ELSE "saved"
  /\ result' = IF raises THEN NoFrame ELSE FastDataFrame(<<>>)
  /\ UNCHANGED <<repo_commits, commits, count, pos, stats_failed, analyzer>>
  /\ UNCHANGED notHist

\* the loop is left (the iterator is exhausted or `count >= limit`):
\* commit_df = pd.DataFrame(commits), saved with to_csv
FastLoopEnd ==
  /\ pc = "fast-loop"
  /\ pos > Len(repo_commits) \/ count >= ValueOf(limit)
  /\ pc' = "fast-done"
  /\ outcome' = "saved"
  /\ result' = FastDataFrame(commits)
  /\ UNCHANGED <<repo_commits, limit, commits, count, pos, stats_failed, analyzer>>
  /\ UNCHANGED notHist

\* the try block of one commit completes
FastLoopBody ==
  /\ pc = "fast-loop"
  /\ pos <= Len(repo_commits)
  /\ count < ValueOf(limit)
  /\ commits' = Append(commits, FastCommitData(repo_commits[pos]))
  /\ count' = count + 1
  /\ pos' = pos + 1
  /\ UNCHANGED <<repo_commits, limit, pc, outcome, result, stats_failed, analyzer>>
  /\ UNCHANGED notHist

\* the try block of one commit raises: the handler of lines 59-61 prints
\* the error and goes on with the next commit
FastLoopSkip ==
  /\ pc = "fast-loop"
  /\ pos <= Len(repo_commits)
  /\ count < ValueOf(limit)
  /\ stats_failed' = stats_failed \cup {repo_commits[pos].hexsha}
  /\ pos' = pos + 1
  /\ UNCHANGED <<repo_commits, limit, pc, commits, count, outcome, result, analyzer>>
  /\ UNCHANGED notHist

NextFast ==
  \/ FastStart
  \/ \E raises \in BOOLEAN : FastStartUnborn(raises)
  \/ FastLoopEnd
  \/ FastLoopBody
  \/ FastLoopSkip

(***************************************************************************)
(* The three extraction variants side by side: a run is one of             *)
(* get_commit_history, fetch_commits_from_github_api and the script        *)
(* fetch_axios_fast.                                                       *)
(***************************************************************************)
NextExtract == Next \/ NextApi \/ NextFast

SpecExtract == (Init \/ InitApi \/ InitFast) /\ [][NextExtract]_vars

(***************************************************************************)
(* save_commit_data (DataFrame.to_csv) and load_commit_data (pd.read_csv   *)
(* with parse_dates=['datetime']).  The text of a cell is a sequence of    *)
(* tokens, like every string.                                              *)
(***************************************************************************)
StrColumns ==
  {"sha", "author_name", "author_email", "committer_name", "committer_email",
   "message"}

\* the collections with the full field set: the histories, normalised
Frames ==
  {[columns |-> CommitColumns,
    rows |-> [i \in 1..Len(h) |-> CommitData(h[i])]] : h \in Histories}

Pad2(n) == IF n < 10 THEN "0" \o ToString(n) ELSE ToString(n)

\* str(Timestamp): 'YYYY-MM-DD HH:MM:SS'
FormatDatetime(ts) ==
  <<ToString(YearOfDay(DayOf(ts))) \o "-" \o Pad2(MonthOfDay(DayOf(ts))) \o "-"
      \o Pad2(DayOf(ts) - MonthStart(DayOf(ts)) + 1),
    Pad2(HourOf(ts)) \o ":00:00">>

\* to_csv writes a string as it is, an integer in decimal, a datetime in
\* ISO form
FormatCell(col, value) ==
  IF col \in StrColumns THEN value
  ELSE IF col = "datetime" THEN FormatDatetime(value)
  ELSE <<ToString(value)>>

\* commit_df.to_csv(filename, index=False)
ToCsv(df) ==
  [header |-> df.columns,
   lines |-> [i \in 1..Len(df.rows) |->
                [j \in 1..Len(df.columns) |->
                   FormatCell(df.columns[j], df.rows[i][df.columns[j]])]]]

\* the cell texts read_csv takes for a missing value (its default na_values)
NaTexts ==
  {<<>>, <<"#N/A">>, <<"#NA">>, <<"-NaN">>, <<"-nan">>, <<"<NA>">>, <<"N/A">>,
   <<"NA">>, <<"NULL">>, <<"NaN">>, <<"None">>, <<"n/a">>, <<"nan">>, <<"null">>}

Instants == {CommitData(c).datetime : c \in SampleCommits}

IsNumberText(cell) == Len(cell) = 1 /\ \E n \in 0..99 : ToString(n) = cell[1]

ParseNumber(cell) == CHOOSE n \in 0..99 : ToString(n) = cell[1]

ParseDatetime(cell) == CHOOSE ts \in Instants : FormatDatetime(ts) = cell

NaN == [type |-> "nan", val |-> <<>>]

\* read_csv decides the type of a column from all of its cells: a missing
\* value is NaN (NaT in a date column); a column whose other cells are all
\* numbers is numeric, any other column holds the texts as strings
ParseColumn(col, cells, parse_dates) ==
  LET present == {i \in 1..Len(cells) : cells[i] \notin NaTexts}
      numeric == \A i \in present : IsNumberText(cells[i])
  IN  [i \in 1..Len(cells) |->
         IF i \notin present THEN NaN
         ELSE IF col \in parse_dates
              THEN [type |-> "datetime", val |-> ParseDatetime(cells[i])]
         ELSE IF numeric
              THEN [type |-> "int", val |-> ParseNumber(cells[i])]
         ELSE [type |-> "str", val |-> cells[i]]]

\* pd.read_csv(filename, parse_dates=parse_dates)
ReadCsv(file, parse_dates) ==
  LET column(j) == ParseColumn(file.header[j],
                               [i \in 1..Len(file.lines) |-> file.lines[i][j]],
                               parse_dates)
  IN  [columns |-> file.header,
       rows |-> [i \in 1..Len(file.lines) |->
                   [c \in Range(file.header) |->
                      column(CHOOSE j \in 1..Len(file.header) : file.header[j] = c)[i]]]]

InitCsv ==
  /\ IdleHist
  /\ IdleAn
  /\ IdleClone
  /\ IdleApi
  /\ csv_df \in Frames
  /\ csv_file = NoFile
  /\ loaded_df = NoFrame
  /\ csv_pc = "start"

\* save_commit_data(commit_df, filename)
SaveCommitData ==
  /\ csv_pc = "start"
  /\ csv_file' = ToCsv(csv_df)
  /\ csv_pc' = "saved"
  /\ UNCHANGED <<csv_df, loaded_df>>
  /\ UNCHANGED notCsv

\* load_commit_data(filename)
LoadCommitData ==
  /\ csv_pc = "saved"
  /\ loaded_df' = ReadCsv(csv_file, {"datetime"})
  /\ csv_pc' = "loaded"
  /\ UNCHANGED <<csv_df, csv_file>>
  /\ UNCHANGED notCsv

NextCsv ==
  \/ SaveCommitData
  \/ LoadCommitData

SpecCsv == InitCsv /\ [][NextCsv]_vars

(***************************************************************************)
(* RepoAnalyzer: aggregations over the captured frame.                     *)
(* A quotient is the fraction num/den in lowest terms; 0/0 is NaN.         *)
(***************************************************************************)
RECURSIVE Gcd(_, _)
Gcd(a, b) == IF b = 0 THEN a ELSE Gcd(b, a % b)

\* a / b for b # 0
TrueDivideFloor(a, b) == [num |-> a \div b, den |-> 1]

TrueDivide(a, b) == [num |-> a \div Gcd(a, b), den |-> b \div Gcd(a, b)]

NaNQuotient == [num |-> 0, den |-> 0]

\* Series.sum() of an integer column
RECURSIVE ColumnSum(_, _)
ColumnSum(rows, col) ==
  IF rows = <<>> THEN 0 ELSE Head(rows)[col] + ColumnSum(Tail(rows), col)

\* analyze_file_changes(); zero_div is what the division by len(commit_df)
\* does on an empty frame: numpy integers give NaN (with a warning), Python
\* integers, the sums of object columns, raise ZeroDivisionError
FileChanges(df, zero_div) ==
  LET n == Len(df.rows)
      total_additions == ColumnSum(df.rows, "insertions")
      total_deletions == ColumnSum(df.rows, "deletions")
      total_files_changed == ColumnSum(df.rows, "files_changed")
      quotient(a) == IF n = 0 THEN NaNQuotient ELSE TrueDivide(a, n)
  IN  IF n = 0 /\ zero_div = "ZeroDivisionError"
      THEN [status |-> "ZeroDivisionError"]
      ELSE [status |-> "ok",
            total_commits |-> n,
            total_files_changed |-> total_files_changed,
            total_additions |-> total_additions,
            total_deletions |-> total_deletions,
            avg_files_per_commit |-> quotient(total_files_changed),
            avg_additions_per_commit |-> quotient(total_additions),
            avg_deletions_per_commit |-> quotient(total_deletions)]

Frequencies == {"D", "W", "M", "Y"}

\* the last day of the period of `day`: resample labels a week (ending on
\* Sunday), a month and a year by their last day, a day by itself
PeriodEnd(day, freq) ==
  IF freq = "D" THEN day
  ELSE IF freq = "W" THEN day + (6 - DayOfWeek(day))
  ELSE IF freq = "M"
       THEN MonthStart(day) + DaysInMonth(YearOfDay(day), MonthOfDay(day)) - 1
  ELSE YearStart(day) + DaysInYear(YearOfDay(day)) - 1

PeriodStart(day, freq) ==
  IF freq = "D" THEN day
  ELSE IF freq = "W" THEN day - DayOfWeek(day)
  ELSE IF freq = "M" THEN MonthStart(day)
  ELSE YearStart(day)

\* InBin with the bin edges taken at midnight of the label, closed on the
\* right, without moving the edge to the end of the day
InBinMidnightEdge(ts, label, freq) ==
  (PeriodStart(label, freq) - 1) * 24 < ts /\ ts <= label * 24

\* whether an instant is counted in the bin labelled `label`: the bin holds
\* every instant of the days of the period
InBin(ts, label, freq) ==
  PeriodStart(label, freq) <= DayOf(ts) /\ DayOf(ts) <= label

RECURSIVE MinOf(_)
MinOf(S) ==
  LET x == CHOOSE y \in S : TRUE
  IN  IF S = {x} THEN x
      ELSE LET m == MinOf(S \ {x}) IN IF x < m THEN x ELSE m

RECURSIVE MaxOf(_)
MaxOf(S) ==
  LET x == CHOOSE y \in S : TRUE
  IN  IF S = {x} THEN x
      ELSE LET m == MaxOf(S \ {x}) IN IF x > m THEN x ELSE m

\* the labels of the consecutive months or years from `label` to `last`
RECURSIVE CalendarLabels(_, _, _)
CalendarLabels(label, last, freq) ==
  IF label > last THEN <<>>
  ELSE <<label>> \o CalendarLabels(PeriodEnd(label + 1, freq), last, freq)

\* the labels of the consecutive periods from `first` to `last`: days and
\* weeks are a fixed number of days apart, months and years are not
BinLabels(first, last, freq) ==
  IF freq = "D" THEN [k \in 1..(last - first + 1) |-> first + (k - 1)]
  ELSE IF freq = "W" THEN [k \in 1..((last - first) \div 7 + 1) |-> first + 7 * (k - 1)]
  ELSE CalendarLabels(first, last, freq)

\* ['sha'].count() of one bin
BinCount(rows, label, freq) ==
  Cardinality({i \in 1..Len(rows) : InBin(rows[i].datetime, label, freq)})

\* CommitFrequency without the bins that count no commit
CommitFrequencySparse(df, freq) ==
  IF df.rows = <<>> THEN <<>>
  ELSE LET days == {DayOf(df.rows[i].datetime) : i \in 1..Len(df.rows)}
           labels == BinLabels(PeriodEnd(MinOf(days), freq),
                               PeriodEnd(MaxOf(days), freq), freq)
           table == [k \in 1..Len(labels) |->
                       [datetime |-> labels[k] * 24,
                        commit_count |-> BinCount(df.rows, labels[k], freq)]]
       IN  SelectSeq(table, LAMBDA row : row.commit_count > 0)

\* CommitFrequency with every bin labelled by the first day of its period
\* (resample(freq, label='left', closed='left') on period starts)
CommitFrequencyLeftLabel(df, freq) ==
  IF df.rows = <<>> THEN <<>>
  ELSE LET days == {DayOf(df.rows[i].datetime) : i \in 1..Len(df.rows)}
           labels == BinLabels(PeriodEnd(MinOf(days), freq),
                               PeriodEnd(MaxOf(days), freq), freq)
       IN  [k \in 1..Len(labels) |->
              [datetime |-> PeriodStart(labels[k], freq) * 24,
               commit_count |-> BinCount(df.rows, labels[k], freq)]]

\* commit_df.resample(freq, on='datetime')['sha'].count().reset_index():
\* one row per period from the period of the earliest commit to that of the
\* latest one, in order, the empty periods in between included
CommitFrequency(df, freq) ==
  IF df.rows = <<>> THEN <<>>
  ELSE LET days == {DayOf(df.rows[i].datetime) : i \in 1..Len(df.rows)}
           labels == BinLabels(PeriodEnd(MinOf(days), freq),
                               PeriodEnd(MaxOf(days), freq), freq)
       IN  [k \in 1..Len(labels) |->
              [datetime |-> labels[k] * 24,
               commit_count |-> BinCount(df.rows, labels[k], freq)]]

\* the number of rows whose column col is v
CountOf(rows, col, v) == Cardinality({i \in 1..Len(rows) : rows[i][col] = v})

\* the orders Series.value_counts() can give the distinct values of a
\* column: descending by the number of their rows; pandas documents no order
\* among values of equal count, so each of them is a possible outcome
ValueOrders(rows, col) ==
  LET values == {rows[i][col] : i \in 1..Len(rows)}
  IN  {s \in DistinctSeqs(values, Cardinality(values)) :
         /\ Len(s) = Cardinality(values)
         /\ \A k \in 1..(Len(s) - 1) :
              CountOf(rows, col, s[k]) >= CountOf(rows, col, s[k + 1])}

\* Series.value_counts(): one entry per distinct value with the number of
\* its rows, in the order `order`
ValueCounts(rows, col, order) ==
  [k \in 1..Len(order) |-> [value |-> order[k], count |-> CountOf(rows, col, order[k])]]

\* DataFrame.head(n) that keeps one row too many
HeadOffByOne(table, n) ==
  IF n >= 0 THEN SubSeq(table, 1, Min(n + 1, Len(table)))
  ELSE SubSeq(table, 1, Len(table) + n)

\* DataFrame.head(n): the first n rows, all but the last -n when n < 0
HeadRows(table, n) ==
  IF n >= 0 THEN SubSeq(table, 1, Min(n, Len(table)))
  ELSE SubSeq(table, 1, Len(table) + n)

\* the values top_n takes
TopNs == 0..MaxLimit

\* analyze_developer_activity(top_n) given the outcome of value_counts
DeveloperActivity(counts, top_n) ==
  HeadRows([k \in 1..Len(counts) |->
              [developer |-> counts[k].value, commit_count |-> counts[k].count]],
           top_n)

\* str.lower() of a token
Lower(token) ==
  CASE token = "Fix" -> "fix"
    [] token = "Add" -> "add"
    [] token = "Update" -> "update"
    [] token = "Login" -> "login"
    [] OTHER -> token

\* str.isalpha() of a token
IsAlpha(token) == token \notin {"42"} \cup Whitespace

\* stopwords.words('english'), the words of it the messages can hold
EnglishStopWords == {"in", "the", "a", "of", "to", "and"}

\* the stop words without the update of line 96
StopWordsEnglishOnly == EnglishStopWords

\* stop_words after the update of line 96
StopWords == EnglishStopWords \cup {"fix", "bug", "issue", "update", "add", "remove"}

\* the words one message adds to all_words: the tokens of
\* nltk.word_tokenize(message.lower()), which are not white space, that are
\* alphabetic and no stop words
MessageWords(message) ==
  SelectSeq([j \in 1..Len(message) |-> Lower(message[j])],
            LAMBDA word : /\ word \notin Whitespace
                          /\ IsAlpha(word)
                          /\ word \notin StopWords)

\* all_words after the loop over the messages
RECURSIVE AllWords(_)
AllWords(rows) ==
  IF rows = <<>> THEN <<>>
  ELSE MessageWords(Head(rows).message) \o AllWords(Tail(rows))

\* the keys of Counter(words), in the order they were first encountered
RECURSIVE CounterKeys(_)
CounterKeys(words) ==
  IF words = <<>> THEN <<>>
  ELSE LET keys == CounterKeys(SubSeq(words, 1, Len(words) - 1))
           last == words[Len(words)]
       IN  IF last \in Range(keys) THEN keys ELSE Append(keys, last)

\* Counter(words)[word]
Occurrences(words, word) == Cardinality({j \in 1..Len(words) : words[j] = word})

\* sorted(items, key=count, reverse=True): descending, and stable, so equal
\* counts keep the order of the keys
RECURSIVE SortedByCount(_, _)
SortedByCount(keys, words) ==
  IF keys = <<>> THEN <<>>
  ELSE LET top == CHOOSE j \in 1..Len(keys) :
                    /\ \A l \in 1..Len(keys) :
                         Occurrences(words, keys[j]) >= Occurrences(words, keys[l])
                    /\ \A l \in 1..(j - 1) :
                         Occurrences(words, keys[l]) < Occurrences(words, keys[j])
       IN  <<keys[top]>> \o
           SortedByCount(SubSeq(keys, 1, top - 1) \o SubSeq(keys, top + 1, Len(keys)),
                         words)

\* Counter(words).most_common(n): heapq.nlargest(n, items, key=count), which
\* is sorted(items, key=count, reverse=True)[:n] for n > 0 and [] otherwise
MostCommon(words, n) ==
  LET sorted == SortedByCount(CounterKeys(words), words)
  IN  IF n <= 0 THEN <<>> ELSE SubSeq(sorted, 1, Min(n, Len(sorted)))

\* analyze_commit_message_keywords(top_n); when the empty messages are NaN
\* (nan), message.lower() raises AttributeError on the first of them
MessageKeywords(df, top_n, nan) ==
  IF nan /\ \E i \in 1..Len(df.rows) : df.rows[i].message = <<>>
  THEN [status |-> "AttributeError", table |-> <<>>]
  ELSE LET all_words == AllWords(df.rows)
           common == MostCommon(all_words, top_n)
       IN  [status |-> "ok",
            table |-> [k \in 1..Len(common) |->
                         [keyword |-> common[k],
                          count |-> Occurrences(all_words, common[k])]]]

\* the developer names asked for: the authors of the sample commits, a name
\* no commit has, and a name that differs from an author's in case only
DeveloperNames == {Str("Alice"), Str("Bob"), Str("Carol"), Str("NoSuchUser"), Str("alice")}

\* DevCommits without the comparison of line 145: every row is kept
DevCommitsUnfiltered(df, developer_name) == df.rows

\* self.commit_df[self.commit_df['author_name'] == developer_name]
DevCommits(df, developer_name) ==
  SelectSeq(df.rows, LAMBDA row : row.author_name = developer_name)

\* get_developer_productivity without the check of line 147: the divisions
\* by len(dev_commits) = 0 give NaN
DeveloperProductivityUnguarded(df, developer_name) ==
  LET dev_commits == DevCommits(df, developer_name)
      n == Len(dev_commits)
      total_additions == ColumnSum(dev_commits, "insertions")
      total_deletions == ColumnSum(dev_commits, "deletions")
      total_files_changed == ColumnSum(dev_commits, "files_changed")
      quotient(a) == IF n = 0 THEN NaNQuotient ELSE TrueDivide(a, n)
  IN  [status |-> "ok",
       developer |-> developer_name,
       commit_count |-> n,
       total_files_changed |-> total_files_changed,
       total_additions |-> total_additions,
       total_deletions |-> total_deletions,
       avg_files_per_commit |-> quotient(total_files_changed),
       avg_additions_per_commit |-> quotient(total_additions),
       avg_deletions_per_commit |-> quotient(total_deletions)]

\* get_developer_productivity(developer_name): None when no row matches
DeveloperProductivity(df, developer_name) ==
  LET dev_commits == DevCommits(df, developer_name)
      n == Len(dev_commits)
      total_additions == ColumnSum(dev_commits, "insertions")
      total_deletions == ColumnSum(dev_commits, "deletions")
      total_files_changed == ColumnSum(dev_commits, "files_changed")
  IN  IF n = 0 THEN [status |-> "None"]
      ELSE [status |-> "ok",
            developer |-> developer_name,
            commit_count |-> n,
            total_files_changed |-> total_files_changed,
            total_additions |-> total_additions,
            total_deletions |-> total_deletions,
            avg_files_per_commit |-> TrueDivide(total_files_changed, n),
            avg_additions_per_commit |-> TrueDivide(total_additions, n),
            avg_deletions_per_commit |-> TrueDivide(total_deletions, n)]

\* commit_df.copy(): a new frame with the same columns and rows
CopyFrame(df) == [columns |-> df.columns, rows |-> df.rows]

TimeUnits == {"hour", "dayofweek", "month"}

\* the labels of lines 71 and 77-78, in pinyin
day_names == <<"zhou-yi", "zhou-er", "zhou-san", "zhou-si", "zhou-wu", "zhou-liu", "zhou-ri">>

month_names ==
  <<"yi-yue", "er-yue", "san-yue", "si-yue", "wu-yue", "liu-yue", "qi-yue",
    "ba-yue", "jiu-yue", "shi-yue", "shiyi-yue", "shier-yue">>

\* datetime.dt.hour, .dt.dayofweek (Monday = 0) and .dt.month of an instant
TimeField(ts, time_unit) ==
  IF time_unit = "hour" THEN HourOf(ts)
  ELSE IF time_unit = "dayofweek" THEN DayOfWeek(DayOf(ts))
  ELSE MonthOfDay(DayOf(ts))

\* the index of a value_counts() result after sort_index(): ascending
RECURSIVE SortIndex(_)
SortIndex(S) ==
  IF S = {} THEN <<>> ELSE <<MinOf(S)>> \o SortIndex(S \ {MinOf(S)})

\* the label a value is mapped to: the hour itself, day_names[x],
\* month_names[x-1] (0-based) which is month_names[x] here (1-based)
TimeLabel(x, time_unit) ==
  IF time_unit = "hour" THEN x
  ELSE IF time_unit = "dayofweek" THEN day_names[x + 1]
  ELSE month_names[x]

\* a row of the table: the column named after the unit and 'commit_count'
Bucket(time_unit, label, n) ==
  [column \in {time_unit, "commit_count"} |->
     IF column = "commit_count" THEN n ELSE label]

\* the values of the unit with a row for each, whether they occur or not
AllTimeFields(time_unit) ==
  IF time_unit = "hour" THEN 0..23
  ELSE IF time_unit = "dayofweek" THEN 0..6
  ELSE 1..12

\* the table of one supported unit, one row per value of the unit
DenseDistribution(df, time_unit) ==
  LET field(i) == TimeField(df.rows[i].datetime, time_unit)
      index == SortIndex(AllTimeFields(time_unit))
  IN  [k \in 1..Len(index) |->
         Bucket(time_unit, TimeLabel(index[k], time_unit),
                Cardinality({i \in 1..Len(df.rows) : field(i) = index[k]}))]

\* the table of one supported unit: value_counts().sort_index().reset_index()
\* with columns [time_unit, 'commit_count'], the values mapped to labels
Distribution(df, time_unit) ==
  LET field(i) == TimeField(df.rows[i].datetime, time_unit)
      index == SortIndex({field(i) : i \in 1..Len(df.rows)})
  IN  [k \in 1..Len(index) |->
         Bucket(time_unit, TimeLabel(index[k], time_unit),
                Cardinality({i \in 1..Len(df.rows) : field(i) = index[k]}))]

\* analyze_commit_time_distribution with the hour table as the fallback
TimeDistributionFallback(df, time_unit) ==
  IF time_unit \in TimeUnits
  THEN [status |-> "ok", table |-> Distribution(df, time_unit)]
  ELSE [status |-> "ok", table |-> Distribution(df, "hour")]

\* analyze_commit_time_distribution(time_unit)
TimeDistribution(df, time_unit) ==
  IF time_unit \in TimeUnits
  THEN [status |-> "ok", table |-> Distribution(df, time_unit)]
  ELSE [status |-> "ValueError", table |-> <<>>]

\* RepoAnalyzer(commit_df) over a frame with the full field set.
\* A column sum divided by 0 is NaN for numpy integers; the sums of a frame
\* without rows can also be Python integers (object columns), whose division
\* raises.  A frame read back from a CSV file (cli.py line 67) holds NaN in
\* place of its empty messages.
InitAnalyze ==
  /\ IdleHist
  /\ IdleClone
  /\ IdleApi
  /\ IdleCsv
  /\ caller_df \in Frames
  /\ div_by_zero \in IF caller_df.rows = <<>> THEN {"nan", "ZeroDivisionError"}
                      ELSE {"nan"}
  /\ tie_order \in ValueOrders(caller_df.rows, "author_name")
  /\ nan_messages \in IF \E i \in 1..Len(caller_df.rows) : caller_df.rows[i].message = <<>>
                       THEN BOOLEAN ELSE {FALSE}
  /\ commit_df = CopyFrame(caller_df)
  /\ an_call = NoCall
  /\ an_result = <<>>

AnalyzeFileChanges ==
  /\ an_call' = [op |-> "analyze_file_changes", arg |-> "none"]
  /\ an_result' = FileChanges(commit_df, div_by_zero)
  /\ UNCHANGED <<commit_df, anEnv>>
  /\ UNCHANGED notAn

\* DataFrame.rename(columns={old: new}, inplace=True)
RenameColumn(df, old, new) ==
  [columns |-> [j \in 1..Len(df.columns) |->
                  IF df.columns[j] = old THEN new ELSE df.columns[j]],
   rows |-> [i \in 1..Len(df.rows) |->
               [col \in (DOMAIN df.rows[i] \ {old}) \cup {new} |->
                  IF col = new THEN df.rows[i][old] ELSE df.rows[i][col]]]]

\* analyze_commit_frequency with the rename of line 37 applied in place
\* to self.commit_df
AnalyzeCommitFrequencyInPlace(freq) ==
  /\ an_call' = [op |-> "analyze_commit_frequency", arg |-> freq]
  /\ an_result' = IF HasColumn(commit_df, "sha") THEN CommitFrequency(commit_df, freq)
                  ELSE [status |-> "KeyError"]
  /\ commit_df' = RenameColumn(commit_df, "sha", "commit_count")
  /\ UNCHANGED anEnv
  /\ UNCHANGED notAn

AnalyzeCommitFrequency(freq) ==
  /\ an_call' = [op |-> "analyze_commit_frequency", arg |-> freq]
  /\ an_result' = CommitFrequency(commit_df, freq)
  /\ UNCHANGED <<commit_df, anEnv>>
  /\ UNCHANGED notAn

AnalyzeDeveloperActivity(top_n) ==
  /\ an_call' = [op |-> "analyze_developer_activity", arg |-> top_n]
  /\ an_result' = DeveloperActivity(ValueCounts(commit_df.rows, "author_name", tie_order),
                                    top_n)
  /\ UNCHANGED <<commit_df, anEnv>>
  /\ UNCHANGED notAn

AnalyzeCommitTimeDistribution(time_unit) ==
  /\ an_call' = [op |-> "analyze_commit_time_distribution", arg |-> time_unit]
  /\ an_result' = TimeDistribution(commit_df, time_unit)
  /\ UNCHANGED <<commit_df, anEnv>>
  /\ UNCHANGED notAn

AnalyzeCommitMessageKeywords(top_n) ==
  /\ an_call' = [op |-> "analyze_commit_message_keywords", arg |-> top_n]
  /\ an_result' = MessageKeywords(commit_df, top_n, nan_messages)
  /\ UNCHANGED <<commit_df, anEnv>>
  /\ UNCHANGED notAn

GetDeveloperProductivity(developer_name) ==
  /\ an_call' = [op |-> "get_developer_productivity", arg |-> developer_name]
  /\ an_result' = DeveloperProductivity(commit_df, developer_name)
  /\ UNCHANGED <<commit_df, anEnv>>
  /\ UNCHANGED notAn

NextAnalyze ==
  \/ AnalyzeFileChanges
  \/ \E freq \in Frequencies : AnalyzeCommitFrequency(freq)
  \/ \E top_n \in TopNs : AnalyzeDeveloperActivity(top_n)
  \/ \E time_unit \in TimeUnits \cup {"century"} : AnalyzeCommitTimeDistribution(time_unit)
  \/ \E top_n \in TopNs : AnalyzeCommitMessageKeywords(top_n)
  \/ \E developer_name \in DeveloperNames : GetDeveloperProductivity(developer_name)

SpecAnalyze == InitAnalyze /\ [][NextAnalyze]_vars

(***************************************************************************)
(* The claims.                                                             *)
(***************************************************************************)

\* C1: when the statistics of a commit cannot be computed during
\* get_commit_history, the commit is still emitted, with insertions,
\* deletions, lines_changed and files_changed 0, and the traversal goes on:
\* with no limit the result has one record per commit of the history.
C1_StatsFailureKeepsCommit ==
  (pc = "done" /\ limit = None /\ stats_failed # {}) =>
    /\ outcome = "returned"
    /\ Len(result.rows) = Len(repo_commits)
    /\ \A i \in 1..Len(result.rows) :
         /\ result.rows[i].sha = repo_commits[i].hexsha
         /\ result.rows[i].sha \in stats_failed =>
              /\ result.rows[i].insertions = 0
              /\ result.rows[i].deletions = 0
              /\ result.rows[i].lines_changed = 0
              /\ result.rows[i].files_changed = 0

\* the first n commits of the history, normalised, in traversal order
FirstRecords(n) == [i \in 1..n |-> CommitData(repo_commits[i])]

\* C2: get_commit_history returns exactly the first min(limit, N) commits
\* of the newest-first traversal, for every given limit including 0, and
\* all N commits when no limit is given.
C2_LimitPrefix ==
  (pc = "done" /\ outcome = "returned" /\ repo_commits # <<>>) =>
    result.rows = FirstRecords(IF limit = None THEN Len(repo_commits)
                               ELSE Min(ValueOf(limit), Len(repo_commits)))

\* C3: when a page request fails, fetch_commits_from_github_api ends with
\* a failure the caller sees; it does not return normally.
C3_RequestFailureAborts ==
  (api_pc = "done" /\ \E i \in 1..Len(requests) : requests[i].status = "failed") =>
    api_outcome # "returned"

\* C4: pages are requested one after the other in increasing page number
\* starting at 1; no page is requested after an empty page (or a failed
\* request), and none once the number of collected records has reached the
\* number of records asked for, per_page * max_pages.
C4_SequentialPaging ==
  /\ \A i \in 1..Len(requests) :
       /\ requests[i].page = i
       /\ requests[i].collected < per_page * max_pages
  /\ \A i \in 1..(Len(requests) - 1) : requests[i].status = "ok"
  /\ api_pc = "done" => page <= max_pages + 1

\* a run that requested page 2 after a page with records, found it empty
\* and stopped there
C4_Witness ==
  /\ api_pc = "done"
  /\ Len(requests) = 2
  /\ requests[1].status = "ok"
  /\ requests[2].status = "empty"
  /\ Len(api_commits) > 0

\* C5: over a sequence of clone_repo calls with one URL and one target_dir
\* the remote is cloned at most once and only where no .git exists; every
\* call after the clone reuses that copy; and after each call that returns,
\* the returned path is fetcher.repo_path and holds a repository.
C5_CloneAtMostOnce ==
  /\ Cardinality({i \in 1..Len(clone_log) : clone_log[i].did = "cloned"}) <= 1
  /\ \A i \in 1..Len(clone_log) :
       /\ clone_log[i].did = "cloned" => ~clone_log[i].had_git
       /\ clone_log[i].did = "reused" => clone_log[i].had_git
       /\ \A j \in (i + 1)..Len(clone_log) :
            clone_log[i].did = "cloned" =>
              clone_log[j].did = "reused" /\ clone_log[j].to = clone_log[i].to
  /\ last_op = "clone_repo returned" =>
       /\ returned # None
       /\ returned = repo_path
       /\ GitExists(fs_dirs, fs_dotgit, ValueOf(returned))

\* a first call cloned into a target_dir that did not exist and a later call
\* with the same arguments returned the same directory without cloning
C5_Witness ==
  /\ call_target # None
  /\ last_op = "clone_repo returned"
  /\ Len(clone_log) >= 2
  /\ clone_log[1].did = "cloned"
  /\ clone_log[1].to = ValueOf(call_target)
  /\ clone_log[Len(clone_log)].did = "reused"
  /\ returned = Some(clone_log[1].to)

\* C6: for a repository with zero commits get_commit_history returns an
\* empty collection, not an error, and RepoAnalyzer can be constructed over
\* that collection.
C6_EmptyHistoryIsValid ==
  (pc = "done" /\ repo_commits = <<>>) =>
    /\ outcome = "returned"
    /\ result.rows = <<>>
    /\ analyzer # "KeyError"

\* whether a loaded value is the original field: the same type and the
\* same value, a datetime the same instant
FieldEqual(col, original, loaded) ==
  IF col \in StrColumns THEN loaded.type = "str" /\ loaded.val = original
  ELSE IF col = "datetime" THEN loaded.type = "datetime" /\ loaded.val = original
  ELSE loaded.type = "int" /\ loaded.val = original

\* C7: load_commit_data(save_commit_data(c)) has the rows of c, its columns
\* in the same order, and every field equal to the original.
C7_RoundTrip ==
  csv_pc = "loaded" =>
    /\ Len(loaded_df.rows) = Len(csv_df.rows)
    /\ loaded_df.columns = csv_df.columns
    /\ \A i \in 1..Len(csv_df.rows) : \A j \in 1..Len(csv_df.columns) :
         FieldEqual(csv_df.columns[j], csv_df.rows[i][csv_df.columns[j]],
                    loaded_df.rows[i][csv_df.columns[j]])

ZeroQuotient == [num |-> 0, den |-> 1]

\* C8: on a collection with zero commits analyze_file_changes either fails
\* with the EmptyCollection error or returns averages equal to 0; it never
\* returns NaN averages and never lets a division by zero propagate.
C8_EmptyCollectionHandled ==
  (an_call.op = "analyze_file_changes" /\ commit_df.rows = <<>>) =>
    \/ an_result.status = "EmptyCollection"
    \/ /\ an_result.status = "ok"
       /\ an_result.avg_files_per_commit = ZeroQuotient
       /\ an_result.avg_additions_per_commit = ZeroQuotient
       /\ an_result.avg_deletions_per_commit = ZeroQuotient

\* the sum of one field over the records, from the last record to the first
SumOver(rows, col) ==
  LET partial[k \in 0..Len(rows)] ==
        IF k = 0 THEN 0 ELSE partial[k - 1] + rows[Len(rows) + 1 - k][col]
  IN  partial[Len(rows)]

\* whether the quotient q is exactly total / n
IsQuotient(q, total, n) == q.den > 0 /\ q.num * n = total * q.den

\* C9: on a non-empty collection analyze_file_changes returns total_commits
\* equal to the number of records, the totals equal to the sums of
\* files_changed, insertions and deletions, and each average equal to its
\* total divided by total_commits.
C9_ChangeSummary ==
  (an_call.op = "analyze_file_changes" /\ commit_df.rows # <<>>) =>
    /\ an_result.status = "ok"
    /\ an_result.total_commits = Len(commit_df.rows)
    /\ an_result.total_files_changed = SumOver(commit_df.rows, "files_changed")
    /\ an_result.total_additions = SumOver(commit_df.rows, "insertions")
    /\ an_result.total_deletions = SumOver(commit_df.rows, "deletions")
    /\ IsQuotient(an_result.avg_files_per_commit,
                  an_result.total_files_changed, an_result.total_commits)
    /\ IsQuotient(an_result.avg_additions_per_commit,
                  an_result.total_additions, an_result.total_commits)
    /\ IsQuotient(an_result.avg_deletions_per_commit,
                  an_result.total_deletions, an_result.total_commits)

\* a summary of three records whose averages are not whole numbers
C9_Witness ==
  /\ an_call.op = "analyze_file_changes"
  /\ Len(commit_df.rows) = 3
  /\ an_result.status = "ok"
  /\ an_result.avg_files_per_commit.den = 3
  /\ an_result.avg_additions_per_commit.den = 3

\* the sum of the counts of rows lo..hi of a frequency table, by halves
RECURSIVE SumCountsIn(_, _, _)
SumCountsIn(table, lo, hi) ==
  IF lo > hi THEN 0
  ELSE IF lo = hi THEN table[lo].commit_count
  ELSE SumCountsIn(table, lo, (lo + hi) \div 2)
       + SumCountsIn(table, (lo + hi) \div 2 + 1, hi)

SumCounts(table) == SumCountsIn(table, 1, Len(table))

\* C10: for every collection and each of the frequencies day, week, month
\* and year, the counts of analyze_commit_frequency sum to the number of
\* records.
C10_FrequencyCountsSum ==
  an_call.op = "analyze_commit_frequency" =>
    SumCounts(an_result) = Len(commit_df.rows)

\* a weekly table over three commits of three different weeks, one of them
\* made on a Sunday, the last day of its week
C10_Witness ==
  /\ an_call.op = "analyze_commit_frequency"
  /\ an_call.arg = "W"
  /\ Len(commit_df.rows) = 3
  /\ Len(an_result) > 3
  /\ \E i \in 1..3 : DayOfWeek(DayOf(commit_df.rows[i].datetime)) = 6
  /\ \A k \in 1..Len(an_result) : an_result[k].commit_count <= 1

\* the instant truncated to the granularity: midnight of the first day of
\* its day, week (Monday), month or year
TruncatedKey(ts, freq) ==
  LET day == DayOf(ts)
  IN  24 * (IF freq = "D" THEN day
            ELSE IF freq = "W" THEN day - DayOfWeek(day)
            ELSE IF freq = "M" THEN MonthStart(day)
            ELSE YearStart(day))

\* midnight of the day itself for days, of the last day of the instant's
\* week (Sunday), month or year otherwise
ClosingKey(ts, freq) ==
  LET day == DayOf(ts)
  IN  24 * (IF freq = "D" THEN day
            ELSE IF freq = "W" THEN day + 6 - DayOfWeek(day)
            ELSE IF freq = "M" THEN MonthStart(day) + DaysInMonth(YearOfDay(day), MonthOfDay(day)) - 1
            ELSE YearStart(day) + DaysInYear(YearOfDay(day)) - 1)

StrictlyIncreasing(table) ==
  \A k \in 1..(Len(table) - 1) : table[k].datetime < table[k + 1].datetime

\* C11: analyze_commit_frequency emits its buckets in strictly increasing
\* order of their keys, and the bucket that counts a commit has as key the
\* commit's timestamp truncated to the start of its day, week, month or
\* year, whatever the order of the rows.
C11_TruncatedKeys ==
  an_call.op = "analyze_commit_frequency" =>
    /\ StrictlyIncreasing(an_result)
    /\ \A i \in 1..Len(commit_df.rows) :
         \E k \in 1..Len(an_result) :
           /\ an_result[k].datetime = TruncatedKey(commit_df.rows[i].datetime, an_call.arg)
           /\ an_result[k].commit_count >= 1

\* C11 as amended: the buckets are in strictly increasing order of their
\* keys; the key of the bucket that counts a commit is midnight of the
\* commit's day for days, and midnight of the last day of the commit's week
\* (Sunday), month or year otherwise; each bucket counts exactly the commits
\* with its key.
C11_ClosingKeys ==
  an_call.op = "analyze_commit_frequency" =>
    /\ StrictlyIncreasing(an_result)
    /\ \A i \in 1..Len(commit_df.rows) :
         \E k \in 1..Len(an_result) :
           an_result[k].datetime = ClosingKey(commit_df.rows[i].datetime, an_call.arg)
    /\ \A k \in 1..Len(an_result) :
         an_result[k].commit_count =
           Cardinality({i \in 1..Len(commit_df.rows) :
                          ClosingKey(commit_df.rows[i].datetime, an_call.arg)
                            = an_result[k].datetime})

\* a monthly table over rows that are not in chronological order, the
\* commits of March 2024, January 2023 and March 2023
C11_Witness ==
  /\ an_call.op = "analyze_commit_frequency"
  /\ an_call.arg = "M"
  /\ Len(commit_df.rows) = 3
  /\ commit_df.rows[1].datetime > commit_df.rows[2].datetime
  /\ commit_df.rows[2].datetime < commit_df.rows[3].datetime
  /\ Len(an_result) > 3
  /\ an_result[1].commit_count = 1

\* C12: for every collection and every top_n >= 0,
\* analyze_developer_activity(top_n) returns at most top_n rows and at most
\* one row per distinct author_name; the count of each row is the number of
\* records with exactly that author_name; the rows are sorted
\* non-increasing by count.
C12_TopContributors ==
  (an_call.op = "analyze_developer_activity" /\ an_call.arg >= 0) =>
    /\ Len(an_result) <= an_call.arg
    /\ Len(an_result) <=
         Cardinality({commit_df.rows[i].author_name : i \in 1..Len(commit_df.rows)})
    /\ \A k \in 1..Len(an_result) :
         /\ an_result[k].commit_count >= 1
         /\ an_result[k].commit_count =
              Cardinality({i \in 1..Len(commit_df.rows) :
                             commit_df.rows[i].author_name = an_result[k].developer})
    /\ \A k \in 1..Len(an_result) : \A l \in 1..Len(an_result) :
         /\ k < l => an_result[k].commit_count >= an_result[l].commit_count
         /\ k # l => an_result[k].developer # an_result[l].developer

\* the ranking cut to its first row: of three records two are Alice's, who
\* is not the author of the first row of the collection
C12_Witness ==
  /\ an_call.op = "analyze_developer_activity"
  /\ an_call.arg = 1
  /\ Len(commit_df.rows) = 3
  /\ commit_df.rows[1].author_name # Str("Alice")
  /\ an_result = <<[developer |-> Str("Alice"), commit_count |-> 2]>>

\* the number a label of the unit stands for: the hour, the index of the
\* day name counted from Monday = 0, the number of the month
LabelValue(label, time_unit) ==
  IF time_unit = "hour" THEN label
  ELSE IF time_unit = "dayofweek"
       THEN (CHOOSE d \in 1..7 : day_names[d] = label) - 1
  ELSE CHOOSE m \in 1..12 : month_names[m] = label

\* the value of the unit an instant has, from the calendar
UnitValue(ts, time_unit) ==
  IF time_unit = "hour" THEN ts % 24
  ELSE IF time_unit = "dayofweek" THEN ((ts \div 24) + 6) % 7
  ELSE MonthOfDay(ts \div 24)

\* C13: for the units hour, dayofweek and month
\* analyze_commit_time_distribution returns a sparse table: one bucket for
\* each value of the unit that occurs in a timestamp and none for the
\* others, in ascending order of the value, each with the number of the
\* records of that value, so the counts sum to the number of records.
C13_SparseDistribution ==
  (an_call.op = "analyze_commit_time_distribution" /\ an_call.arg \in {"hour", "dayofweek", "month"}) =>
    LET unit == an_call.arg
        table == an_result.table
        value(k) == LabelValue(table[k][unit], unit)
    IN  /\ an_result.status = "ok"
        /\ {value(k) : k \in 1..Len(table)} =
             {UnitValue(commit_df.rows[i].datetime, unit) : i \in 1..Len(commit_df.rows)}
        /\ \A k \in 1..(Len(table) - 1) : value(k) < value(k + 1)
        /\ \A k \in 1..Len(table) :
             /\ table[k].commit_count >= 1
             /\ table[k].commit_count =
                  Cardinality({i \in 1..Len(commit_df.rows) :
                                 UnitValue(commit_df.rows[i].datetime, unit) = value(k)})

\* commits at the hours 9, 9 and 14 give the buckets (9, 2), (14, 1)
C13_Witness ==
  /\ an_call.op = "analyze_commit_time_distribution"
  /\ an_call.arg = "hour"
  /\ Len(commit_df.rows) = 3
  /\ commit_df.rows[1].datetime % 24 = 9
  /\ commit_df.rows[2].datetime % 24 = 14
  /\ commit_df.rows[3].datetime % 24 = 9
  /\ Len(an_result.table) = 2
  /\ an_result.table[1].hour = 9 /\ an_result.table[1].commit_count = 2
  /\ an_result.table[2].hour = 14 /\ an_result.table[2].commit_count = 1

\* C14: analyze_commit_time_distribution called with a unit other than
\* hour, dayofweek and month raises the unsupported-unit error (ValueError),
\* returns no table and leaves the analyzer's collection as it was.
C14_UnsupportedUnit ==
  [][(/\ an_call'.op = "analyze_commit_time_distribution"
      /\ an_call'.arg \notin {"hour", "dayofweek", "month"})
       => /\ an_result'.status = "ValueError"
          /\ an_result'.table = <<>>
          /\ commit_df' = commit_df
          /\ caller_df' = caller_df]_vars

\* the call with unit 'century' has failed on an analyzer over three records
C14_Witness ==
  /\ an_call.op = "analyze_commit_time_distribution"
  /\ an_call.arg = "century"
  /\ an_result.status = "ValueError"
  /\ Len(commit_df.rows) = 3

\* the lowercase, purely alphabetic words of the messages that are no stop
\* words
Keywords == {"login", "new", "feature", "documentation"}

\* the spellings of a keyword in the messages
Spellings(keyword) == IF keyword = "login" THEN {"login", "Login"} ELSE {keyword}

\* the places (row, position) of the messages where a keyword stands
PlacesOf(rows, keyword) ==
  {<<i, j>> \in (1..Len(rows)) \X (1..4) :
     j <= Len(rows[i].message) /\ rows[i].message[j] \in Spellings(keyword)}

\* whether keyword v is met before keyword w when the messages are read in
\* row order
FirstMetBefore(rows, v, w) ==
  \E p \in PlacesOf(rows, v) : \A q \in PlacesOf(rows, w) :
    p[1] < q[1] \/ (p[1] = q[1] /\ p[2] < q[2])

\* C15: analyze_commit_message_keywords(top_n) returns at most top_n rows;
\* every returned token is lowercase, alphabetic and no stop word (not an
\* English stop word, not fix, bug, issue, update, add, remove); each count
\* is the number of occurrences of the token over all messages; the rows
\* are sorted non-increasing by count, equal counts in the order the tokens
\* were first encountered.
C15_MessageKeywords ==
  (/\ an_call.op = "analyze_commit_message_keywords"
   /\ an_call.arg >= 0
   /\ an_result.status = "ok") =>
    LET table == an_result.table
    IN  /\ Len(table) <= an_call.arg
        /\ \A k \in 1..Len(table) :
             /\ table[k].keyword \in Keywords
             /\ table[k].count >= 1
             /\ table[k].count = Cardinality(PlacesOf(commit_df.rows, table[k].keyword))
        /\ \A k \in 1..Len(table) : \A l \in (k + 1)..Len(table) :
             \/ table[k].count > table[l].count
             \/ /\ table[k].count = table[l].count
                /\ FirstMetBefore(commit_df.rows, table[k].keyword, table[l].keyword)

\* top_n = 3 over the messages 'Fix bug in login', 'Add new feature',
\* 'Update documentation' gives login, new, feature, each with count 1
C15_Witness ==
  /\ an_call.op = "analyze_commit_message_keywords"
  /\ an_call.arg = 3
  /\ Len(commit_df.rows) = 3
  /\ commit_df.rows[1].message = <<"Fix", "bug", "in", "login">>
  /\ commit_df.rows[2].message = <<"Add", "new", "feature">>
  /\ commit_df.rows[3].message = <<"Update", "documentation">>
  /\ an_result.status = "ok"
  /\ an_result.table = <<[keyword |-> "login", count |-> 1],
                         [keyword |-> "new", count |-> 1],
                         [keyword |-> "feature", count |-> 1]>>

\* whether some record of the collection has this author_name
HasAuthor(df, name) == \E i \in 1..Len(df.rows) : df.rows[i].author_name = name

\* C16: get_developer_productivity(name) returns the not-found result
\* (None) exactly when no record has author_name equal to name, without
\* raising and without a division by zero; when a record matches it
\* returns a summary, never not-found.
C16_NotFound ==
  an_call.op = "get_developer_productivity" =>
    /\ an_result.status \in {"None", "ok"}
    /\ an_result.status = "None" <=> ~HasAuthor(commit_df, an_call.arg)
    /\ an_result.status = "ok" =>
         /\ an_result.commit_count >= 1
         /\ an_result.avg_files_per_commit.den >= 1
         /\ an_result.avg_additions_per_commit.den >= 1
         /\ an_result.avg_deletions_per_commit.den >= 1

\* the summary of NoSuchUser over three records is the not-found result
C16_Witness ==
  /\ an_call.op = "get_developer_productivity"
  /\ an_call.arg = <<"NoSuchUser">>
  /\ Len(commit_df.rows) = 3
  /\ an_result.status = "None"

\* the instant a commit was made: its local time less its UTC offset
InstantOf(commit) == commit.committed_local - commit.tz_offset

\* the commit of the history a record was made from
CommitOf(record) == CHOOSE c \in Range(repo_commits) : c.hexsha = record.sha

\* the payload of the remote a record was made from
PayloadOf(record) == CHOOSE c \in Range(remote) : c.sha = record.sha

\* the records a finished extraction produced
Extracted ==
  IF pc \in {"done", "fast-done"} THEN result.rows
  ELSE IF api_pc = "done" THEN api_commits
  ELSE <<>>

\* the instant of the commit a record of the finished extraction was made
\* from
RealInstant(record) ==
  IF api_pc = "done" THEN PayloadOf(record).committer.date.utc
  ELSE InstantOf(CommitOf(record))

\* C17: the timestamp of every record is the committer instant in UTC with
\* the offset stripped: local time t at offset d is stored as t - d, so two
\* commits made at the same instant get equal timestamps and the order of
\* the stored timestamps is the order of the instants.
C17_TimestampsAreUtc ==
  /\ \A k \in 1..Len(Extracted) : Extracted[k].datetime = RealInstant(Extracted[k])
  /\ \A k \in 1..Len(Extracted) : \A l \in 1..Len(Extracted) :
       /\ RealInstant(Extracted[k]) = RealInstant(Extracted[l])
            => Extracted[k].datetime = Extracted[l].datetime
       /\ RealInstant(Extracted[k]) < RealInstant(Extracted[l])
            <=> Extracted[k].datetime < Extracted[l].datetime

\* get_commit_history returned two commits made at the same instant, one
\* at 10:00 UTC and one at 18:00 at offset +8, with equal timestamps
C17_Witness ==
  /\ pc = "done"
  /\ outcome = "returned"
  /\ \E k \in 1..Len(result.rows) : \E l \in 1..Len(result.rows) :
       /\ CommitOf(result.rows[k]).tz_offset = 0
       /\ CommitOf(result.rows[l]).tz_offset = 8
       /\ CommitOf(result.rows[k]).committed_local < CommitOf(result.rows[l]).committed_local
       /\ result.rows[k].datetime = result.rows[l].datetime

\* the field set of the commit table, in column order
FieldSet ==
  <<"sha", "author_name", "author_email", "committer_name", "committer_email",
    "datetime", "message", "insertions", "deletions", "lines_changed",
    "files_changed", "parents">>

\* the columns of the records a finished extraction produced, in order
ExtractedColumns == IF api_pc = "done" THEN ApiColumns ELSE result.columns

\* C19: every record of every extraction variant (get_commit_history, the
\* script fetch_axios_fast, fetch_commits_from_github_api) has the complete
\* field set, in the column order sha, author_name, author_email,
\* committer_name, committer_email, datetime, message, insertions,
\* deletions, lines_changed, files_changed, parents, and its numeric fields
\* are present and not negative.
C19_CompleteFieldSet ==
  Extracted # <<>> =>
    /\ ExtractedColumns = FieldSet
    /\ \A k \in 1..Len(Extracted) :
         /\ DOMAIN Extracted[k] = Range(FieldSet)
         /\ \A col \in {"insertions", "deletions", "lines_changed", "files_changed", "parents"} :
              col \in DOMAIN Extracted[k] /\ Extracted[k][col] >= 0

\* C20: analyze_commit_frequency omits the buckets without commits: every
\* bucket of its result has a count of at least 1, also when whole periods
\* between the earliest and the latest commit hold no commit.
C20_NoEmptyBuckets ==
  an_call.op = "analyze_commit_frequency" =>
    \A k \in 1..Len(an_result) : an_result[k].commit_count >= 1

\* C20 as amended: analyze_commit_frequency emits one bucket for every
\* period of the granularity from the period of the earliest commit to the
\* period of the latest one, the periods without commits included, with
\* count 0; the first and the last bucket count at least one commit.
C20_DenseBuckets ==
  (an_call.op = "analyze_commit_frequency" /\ commit_df.rows # <<>>) =>
    LET n == Len(an_result)
        stamps == {commit_df.rows[i].datetime : i \in 1..Len(commit_df.rows)}
    IN  /\ n >= 1
        /\ an_result[1].datetime = ClosingKey(MinOf(stamps), an_call.arg)
        /\ an_result[n].datetime = ClosingKey(MaxOf(stamps), an_call.arg)
        /\ an_result[1].commit_count >= 1
        /\ an_result[n].commit_count >= 1
        /\ \A k \in 1..(n - 1) :
             an_result[k + 1].datetime = ClosingKey(an_result[k].datetime + 24, an_call.arg)
        /\ \A k \in 1..n :
             an_result[k].commit_count = 0 <=>
               \A i \in 1..Len(commit_df.rows) :
                 ClosingKey(commit_df.rows[i].datetime, an_call.arg) # an_result[k].datetime

\* the monthly table of commits of January and March 2023: February is a
\* bucket with count 0 between them
C20_Witness ==
  /\ an_call.op = "analyze_commit_frequency"
  /\ an_call.arg = "M"
  /\ Len(an_result) = 3
  /\ an_result[1].commit_count >= 1
  /\ an_result[2].commit_count = 0
  /\ an_result[3].commit_count >= 1

\* whether two calls are the same method with the same argument
SameCall(a, b) == a.op = b.op /\ a.arg = b.arg

\* C18: no analysis call, failing ones included, changes the caller's
\* collection or the collection the analyzer captured, in whatever order
\* and however often the six analyses are called; a call repeated with the
\* same argument returns the same result.
C18_AnalysesArePure ==
  [][/\ caller_df' = caller_df
     /\ commit_df' = commit_df
     /\ commit_df' = CopyFrame(caller_df')
     /\ SameCall(an_call', an_call) => an_result' = an_result]_vars

\* analyze_commit_message_keywords has failed on a NaN message and the
\* captured collection, of three records, is still the caller's
C18_Witness ==
  /\ an_call.op = "analyze_commit_message_keywords"
  /\ an_result.status = "AttributeError"
  /\ Len(caller_df.rows) = 3
  /\ commit_df = caller_df

\* C21: whatever clone_repo calls, repo_path assignments and open_repo calls
\* came before, the handle open_repo returns is one opened on the fetcher's
\* current repo_path; a handle opened for an earlier repo_path is not used
\* after repo_path has changed.
C21_HandleIsCurrent ==
  last_op = "open_repo returned" => returned = repo_path

\* the collection restricted to the records whose author_name is `name`
RecordsOf(df, name) ==
  [columns |-> df.columns,
   rows |-> SelectSeq(df.rows, LAMBDA record : record.author_name = name)]

\* the distinct author names of a collection
AuthorsOf(df) == {df.rows[i].author_name : i \in 1..Len(df.rows)}

\* the sum of one field of the per-author summaries over a set of names
RECURSIVE SumOfSummaries(_, _, _)
SumOfSummaries(df, names, field) ==
  IF names = {} THEN 0
  ELSE LET name == CHOOSE a \in names : TRUE
       IN  DeveloperProductivity(df, name)[field]
           + SumOfSummaries(df, names \ {name}, field)

\* C22: a summary get_developer_productivity(a) returns has the totals and
\* averages analyze_file_changes computes over exactly the records whose
\* author_name is a, commit_count being its total_commits; and the
\* summaries of the distinct author names partition the collection: their
\* commit_count, total_files_changed, total_additions and total_deletions
\* add up to the totals analyze_file_changes returns for the collection.
C22_SummariesPartition ==
  /\ (an_call.op = "get_developer_productivity" /\ an_result.status = "ok") =>
       LET whole == FileChanges(RecordsOf(commit_df, an_call.arg), div_by_zero)
       IN  /\ whole.status = "ok"
           /\ an_result.developer = an_call.arg
           /\ an_result.commit_count = whole.total_commits
           /\ an_result.total_files_changed = whole.total_files_changed
           /\ an_result.total_additions = whole.total_additions
           /\ an_result.total_deletions = whole.total_deletions
           /\ an_result.avg_files_per_commit = whole.avg_files_per_commit
           /\ an_result.avg_additions_per_commit = whole.avg_additions_per_commit
           /\ an_result.avg_deletions_per_commit = whole.avg_deletions_per_commit
  /\ (an_call.op = "analyze_file_changes" /\ an_result.status = "ok") =>
       LET names == AuthorsOf(commit_df)
       IN  /\ \A name \in names : DeveloperProductivity(commit_df, name).status = "ok"
           /\ an_result.total_commits = SumOfSummaries(commit_df, names, "commit_count")
           /\ an_result.total_files_changed
                = SumOfSummaries(commit_df, names, "total_files_changed")
           /\ an_result.total_additions
                = SumOfSummaries(commit_df, names, "total_additions")
           /\ an_result.total_deletions
                = SumOfSummaries(commit_df, names, "total_deletions")

\* the summary of an author who made some but not all of three commits
C22_Witness ==
  /\ an_call.op = "get_developer_productivity"
  /\ an_result.status = "ok"
  /\ Len(commit_df.rows) = 3
  /\ an_result.commit_count \in {1, 2}
  /\ Cardinality(AuthorsOf(commit_df)) >= 2

====
